---- MODULE Spec2Model ----
(***************************************************************************)
(* Model of kalki-ui-hooks: the deep-equality comparator deepEqual and the *)
(* change-gated trigger of useDeepCompareEffect                            *)
(* (src/src/hooks/utility/useDeepCompareEffect.ts), and the state hooks    *)
(* useCounter, useArray, usePrevious, useUpdateEffect, useUnmount,         *)
(* useLocalStorage and useSessionStorage, each as a machine of its own.    *)
(***************************************************************************)
EXTENDS Integers, Sequences, FiniteSets, TLC

VARIABLES
    ref,          \* ref.current of useDeepCompareEffect: the dependency snapshot
    signalRef,    \* signalRef.current: the generation counter
    deps,         \* the deps argument of the most recent render
    renders,      \* number of renders of the instance so far
    fired,        \* history: TRUE iff the most recent render took the branch of line 60
    lastFired,    \* history: the deps argument of the most recent render that fired
    effectDep,    \* the dependency list [signalRef.current] of the last useEffect call
    effectRan,    \* TRUE iff the host ran the effect after the most recent render
    allPresent,   \* history: TRUE iff no render so far was given null or undefined deps
    firings,      \* history: renders in which the condition of line 60 held
    a, b,         \* the operands of the deepEqual call being executed
    stack,        \* the call stack of that deepEqual call, innermost frame last
    ret,          \* what the last finished deepEqual frame returned
    \* useCounter
    cInitial,     \* the initialValue argument
    cMin, cMax,   \* options.min, options.max
    cStep,        \* options.step
    count,        \* the count state
    \* useArray
    array,        \* the array state as of the last render
    pending,      \* the updates queued by setArray since the last render
    aOp,          \* the callback called last: "none" before any call
    aRet,         \* what that call returned ("undefined" for undefined)
    aWant,        \* history: the item that call removes from the array
    \* usePrevious
    pRef,         \* ref.current
    pValue,       \* the value argument of the latest render
    pRet,         \* what the latest render returned
    pBefore,      \* history: the value argument of the render before the latest
    pRenders,     \* renders so far
    pPending,     \* TRUE while the effect of the latest render has not run yet
    \* useUpdateEffect
    uFirst,       \* isFirstRender.current
    uDeps,        \* the deps argument of the latest commit
    uPrevDeps,    \* the deps argument of the commit before the latest
    uCommits,     \* commits so far, the mount included
    uInvoked,     \* TRUE iff effect() was called after the latest commit
    \* useUnmount
    mPhase,       \* "new", "mounted" or "unmounted"
    mFnRef,       \* fnRef.current
    mFn,          \* the fn argument of the latest render
    mMountFn,     \* history: the fn argument of the mount render
    mRenders,     \* renders so far
    mCalls,       \* calls the hook has made of a function it was given
    mCalled,      \* the function called last, "none" before any call
    \* useLocalStorage, useSessionStorage
    storage,      \* the browser's two storage objects: kind -> key -> entry
    sPhase,       \* "new" or "mounted"
    sKind,        \* the storage object of the mounted hook
    sKey,         \* the key argument of the latest render
    sValue,       \* storedValue of the latest render
    sPending,     \* the state the next render will see
    sWriteOk      \* history: the latest write of the effect did not throw

hookVars ==
    <<ref, signalRef, deps, renders, fired, lastFired, effectDep, effectRan, allPresent,
      firings>>
eqVars == <<a, b, stack, ret>>
counterVars == <<cInitial, cMin, cMax, cStep, count>>
arrayVars == <<array, pending, aOp, aRet, aWant>>
prevVars == <<pRef, pValue, pRet, pBefore, pRenders, pPending>>
updVars == <<uFirst, uDeps, uPrevDeps, uCommits, uInvoked>>
unmVars == <<mPhase, mFnRef, mFn, mMountFn, mRenders, mCalls, mCalled>>
storVars == <<storage, sPhase, sKind, sKey, sValue, sPending, sWriteOk>>
libVars == <<counterVars, arrayVars, prevVars, updVars, unmVars, storVars>>
vars == <<hookVars, eqVars, libVars>>

\* the hooks that take no part in a specification stay as they are here
CounterIdle == cInitial = 0 /\ cMin = 0 /\ cMax = 0 /\ cStep = 0 /\ count = 0
ArrayIdle == array = <<>> /\ pending = <<>> /\ aOp = "none" /\ aRet = "undefined" /\ aWant = "undefined"
PrevIdle ==
    /\ pRef = "undefined" /\ pValue = "undefined" /\ pRet = "undefined" /\ pBefore = "undefined"
    /\ pRenders = 0 /\ pPending = FALSE
NoDeps == [given |-> FALSE, list |-> <<>>]
UpdIdle ==
    /\ uFirst = TRUE /\ uDeps = NoDeps /\ uPrevDeps = NoDeps
    /\ uCommits = 0 /\ uInvoked = FALSE
UnmIdle ==
    /\ mPhase = "new" /\ mFnRef = "none" /\ mFn = "none" /\ mMountFn = "none"
    /\ mRenders = 0 /\ mCalls = 0 /\ mCalled = "none"
StorageKinds == {"localStorage", "sessionStorage"}
StoreKeys == {"k1", "k2"}
StorIdle ==
    /\ storage = [o \in StorageKinds |-> [k \in StoreKeys |->
                     [kind |-> "null", v |-> "", interned |-> FALSE, members |-> <<>>]]]
    /\ sPhase = "new" /\ sKind = "none" /\ sKey = "none"
    /\ sValue = [kind |-> "undefined", v |-> "", interned |-> FALSE, members |-> <<>>]
    /\ sPending = sValue /\ sWriteOk = FALSE
LibIdle == CounterIdle /\ ArrayIdle /\ PrevIdle /\ UpdIdle /\ UnmIdle /\ StorIdle
EqIdle == a = [kind |-> "undefined", v |-> "", interned |-> FALSE, members |-> <<>>]
          /\ b = a /\ stack = <<>> /\ ret = "none"

----------------------------------------------------------------------------
(* Bounds of the model.                                                     *)

MaxLen == 2        \* members of a composite value: 0..MaxLen
MaxDepth == 2      \* nesting depth of composite values
MaxRenders == 3    \* renders of one hook instance

----------------------------------------------------------------------------
(* JavaScript values.  Every value is a record of one shape:                *)
(*   kind      "undefined", "null", "number", "string", "boolean",          *)
(*             "array" or "object"                                          *)
(*   v         the primitive's value, as text ("" for the other kinds)      *)
(*   interned  for a composite: TRUE if it is one long-lived object, the    *)
(*             same reference wherever it occurs; FALSE if every occurrence *)
(*             is a freshly allocated object (a literal, a copy)            *)
(*   members   for a composite: its own enumerable members in the order of  *)
(*             Object.keys, each [name, val]                                *)

Prim(k, s) == [kind |-> k, v |-> s, interned |-> FALSE, members |-> <<>>]
Undefined == Prim("undefined", "")
Null == Prim("null", "")
Zero == Prim("number", "0")
One == Prim("number", "1")
NaN == Prim("number", "NaN")
EmptyStr == Prim("string", "")
False == Prim("boolean", "false")

Arr(items, i) ==
    [kind |-> "array", v |-> "", interned |-> i,
     members |-> [k \in 1..Len(items) |-> [name |-> ToString(k - 1), val |-> items[k]]]]

Obj(names, vals, i) ==
    [kind |-> "object", v |-> "", interned |-> i,
     members |-> [k \in 1..Len(names) |-> [name |-> names[k], val |-> vals[k]]]]

Absent == {Undefined, Null}
Primitives == {Undefined, Null, Zero, One, NaN, EmptyStr, False}
\* the primitives that occur as members of composites
Leaves == {Undefined, One, NaN}
\* member names of records; "0" is also the first index of an array
Keys == {"0", "a", "b"}

SeqsUpTo(S, n) == UNION {[1..k -> S] : k \in 0..n}

\* Object.keys order: integer-like names first, the others in insertion order
KeyOrders(n) ==
    {ks \in SeqsUpTo(Keys, n) :
        /\ \A i, j \in 1..Len(ks) : i # j => ks[i] # ks[j]
        /\ \A i \in 2..Len(ks) : ks[i] # "0"}

CompositesOver(S, n) ==
    {Arr(items, i) : items \in SeqsUpTo(S, n), i \in BOOLEAN}
    \cup UNION {{Obj(ks, vs, i) : vs \in [1..Len(ks) -> S], i \in BOOLEAN} : ks \in KeyOrders(n)}

\* composites of nesting depth exactly d: full width at depth 1; at depth 2
\* a list or record with one member, itself a composite of at most one
\* member; deeper, a fresh list or record around a composite of depth d - 1
RECURSIVE Composites(_)
Composites(d) ==
    IF d <= 1 THEN CompositesOver(Leaves, MaxLen)
    ELSE IF d = 2
    THEN LET inner == {x \in Composites(1) :
                          Len(x.members) <= 1
                          /\ \A k \in 1..Len(x.members) : x.members[k].name \in {"0", "a"}}
         IN {Arr(<<x>>, i) : x \in inner, i \in BOOLEAN}
            \cup {Obj(<<"a">>, <<x>>, i) : x \in inner, i \in BOOLEAN}
    ELSE {Arr(<<x>>, FALSE) : x \in Composites(d - 1)}
         \cup {Obj(<<"a">>, <<x>>, FALSE) : x \in Composites(d - 1)}

AllComposites == UNION {Composites(d) : d \in 1..MaxDepth}
Values == Primitives \cup AllComposites

----------------------------------------------------------------------------
(* The language primitives deepEqual uses.                                  *)

IsComposite(x) == x.kind \in {"array", "object"}

\* typeof x
TypeOf(x) == IF x.kind \in {"null", "array", "object"} THEN "object" ELSE x.kind

\* Array.isArray(x)
IsArray(x) == x.kind = "array"

\* x === y: by value for primitives (NaN is not equal to itself), by
\* reference for composites
StrictEquals(x, y) ==
    IF IsComposite(x) \/ IsComposite(y)
    THEN x.interned /\ y.interned /\ x = y
    ELSE x.kind = y.kind /\ x.v = y.v /\ x # NaN

LooseNull_Never(x) == FALSE

\* x == null
LooseNull(x) == x.kind \in {"undefined", "null"}

Falsy_Never(x) == FALSE

\* !x
Falsy(x) == x \in {Undefined, Null, Zero, NaN, EmptyStr, False}

\* Object.keys(x) of a composite
ObjectKeys(x) == [k \in 1..Len(x.members) |-> x.members[k].name]

\* keys.includes(key)
Includes(keys, key) == \E k \in 1..Len(keys) : keys[k] = key

\* x[key]: undefined when x has no such member
Get(x, key) ==
    IF \E k \in 1..Len(x.members) : x.members[k].name = key
    THEN (CHOOSE m \in {x.members[k] : k \in 1..Len(x.members)} : m.name = key).val
    ELSE Undefined

----------------------------------------------------------------------------
(* deepEqual, useDeepCompareEffect.ts lines 6-28.                           *)

NullCase_Loose(x, y) == LooseNull(x) /\ LooseNull(y)

\* line 9: return a === b, once one operand is null or undefined
NullCase(x, y) == StrictEquals(x, y)

ArraynessDiffers_Never(x, y) == FALSE

\* line 15: Array.isArray(a) !== Array.isArray(b)
ArraynessDiffers(x, y) == IsArray(x) # IsArray(y)

LengthDiffers_Never(keysA, keysB) == FALSE

\* line 20: keysA.length !== keysB.length
LengthDiffers(keysA, keysB) == Len(keysA) # Len(keysB)

\* lines 7-20: what a call does before its loop.  "true" and "false" are its
\* return value, "loop" says that it reaches the loop of line 22, "throw"
\* that Object.keys is applied to null or undefined and raises a TypeError
Prologue(x, y) ==
    IF StrictEquals(x, y) THEN "true"
    ELSE IF LooseNull(x) \/ LooseNull(y)
         THEN (IF NullCase(x, y) THEN "true" ELSE "false")
    ELSE IF TypeOf(x) # TypeOf(y) THEN "false"
    ELSE IF TypeOf(x) # "object"
         THEN (IF StrictEquals(x, y) THEN "true" ELSE "false")
    ELSE IF ArraynessDiffers(x, y) THEN "false"
    ELSE IF x.kind \in {"undefined", "null"} \/ y.kind \in {"undefined", "null"} THEN "throw"
    ELSE IF LengthDiffers(ObjectKeys(x), ObjectKeys(y)) THEN "false"
    ELSE "loop"

\* the function as a whole; the loop of lines 22-25 stops at the first key
\* that is missing from b or whose values differ
RECURSIVE deepEqual(_, _)
deepEqual(x, y) ==
    LET p == Prologue(x, y)
        keysA == ObjectKeys(x)
        keysB == ObjectKeys(y)
    IN IF p = "loop"
       THEN \A k \in 1..Len(keysA) :
                /\ Includes(keysB, keysA[k])
                /\ deepEqual(Get(x, keysA[k]), Get(y, keysA[k]))
       ELSE p = "true"

----------------------------------------------------------------------------
(* One call of deepEqual(a, b), run step by step on an explicit call stack. *)
(* A frame is [x, y, pc, i]: the operands, "entry" before line 7 or "loop"  *)
(* inside the for of line 22, and the position of the loop in keysA.        *)

Frame(x, y) == [x |-> x, y |-> y, pc |-> "entry", i |-> 0]
Top == stack[Len(stack)]
Pop == SubSeq(stack, 1, Len(stack) - 1)
ReplaceTop(f) == [stack EXCEPT ![Len(stack)] = f]

\* lines 7-20 of the innermost call
Call ==
    /\ stack # <<>> /\ ret = "none" /\ Top.pc = "entry"
    /\ LET p == Prologue(Top.x, Top.y)
       IN CASE p = "loop" -> /\ stack' = ReplaceTop([Top EXCEPT !.pc = "loop", !.i = 1])
                             /\ ret' = "none"
            [] p = "throw" -> /\ stack' = stack
                              /\ ret' = "TypeError"
            [] OTHER -> /\ stack' = Pop
                        /\ ret' = p
    /\ UNCHANGED <<a, b, hookVars, libVars>>

\* lines 22-24 and 27: the next key of keysA, or the end of the loop
Iterate ==
    /\ stack # <<>> /\ ret = "none" /\ Top.pc = "loop"
    /\ LET keysA == ObjectKeys(Top.x)
           keysB == ObjectKeys(Top.y)
       IN IF Top.i > Len(keysA)
          THEN stack' = Pop /\ ret' = "true"
          ELSE IF ~Includes(keysB, keysA[Top.i])
          THEN stack' = Pop /\ ret' = "false"
          ELSE /\ stack' = Append(stack, Frame(Get(Top.x, keysA[Top.i]), Get(Top.y, keysA[Top.i])))
               /\ ret' = "none"
    /\ UNCHANGED <<a, b, hookVars, libVars>>

\* line 24: the recursive call has returned
Resume ==
    /\ stack # <<>> /\ ret \in {"true", "false"} /\ Top.pc = "loop"
    /\ IF ret = "false"
       THEN stack' = Pop /\ ret' = "false"
       ELSE stack' = ReplaceTop([Top EXCEPT !.i = Top.i + 1]) /\ ret' = "none"
    /\ UNCHANGED <<a, b, hookVars, libVars>>

----------------------------------------------------------------------------
(* useDeepCompareEffect, useDeepCompareEffect.ts lines 53-66.               *)

\* the values a component passes as deps: no list, a list of up to MaxLen
\* primitives, or a list or record holding one composite
DepsDomain == Absent \cup {x \in Composites(1) : IsArray(x)} \cup Composites(2)

NextRef_Always(d, cur) == d

NextRef_KeepOnAbsent(d, cur) == IF ~Falsy(d) /\ ~deepEqual(d, cur) THEN d ELSE cur

\* line 60: !deps || !deepEqual(deps, ref.current)
Fires(d, cur) == Falsy(d) \/ ~deepEqual(d, cur)

\* line 61
NextRef(d, cur) == IF Fires(d, cur) THEN d ELSE cur

\* line 62
NextSignal(d, cur, sig) == IF Fires(d, cur) THEN sig + 1 ELSE sig

EffectRuns_Always(first, oldDep, newDep) == TRUE

\* line 65: the host runs the effect after the mount render and after a
\* render whose dependency list [signalRef.current] differs from the last one
EffectRuns(first, oldDep, newDep) == first \/ oldDep # newDep

\* one render of the component: the whole hook body
Render(d) ==
    /\ renders < MaxRenders
    /\ ref' = NextRef(d, ref)
    /\ signalRef' = NextSignal(d, ref, signalRef)
    /\ effectRan' = EffectRuns(renders = 0, effectDep, signalRef')
    /\ effectDep' = signalRef'
    /\ deps' = d
    /\ renders' = renders + 1
    /\ fired' = (signalRef' # signalRef)
    /\ lastFired' = IF signalRef' # signalRef THEN d ELSE lastFired
    /\ allPresent' = (allPresent /\ d \notin Absent)
    /\ firings' = IF Fires(d, ref) THEN firings + 1 ELSE firings
    /\ UNCHANGED <<eqVars, libVars>>

----------------------------------------------------------------------------
(* Specifications.                                                          *)

HookInit ==
    /\ ref = Undefined
    /\ signalRef = 0
    /\ deps = Undefined
    /\ renders = 0
    /\ fired = FALSE
    /\ lastFired = Undefined
    /\ effectDep = 0
    /\ effectRan = FALSE
    /\ allPresent = TRUE
    /\ firings = 0

\* a mounted hook instance; no comparison is being traced
Init ==
    /\ HookInit
    /\ EqIdle
    /\ LibIdle

Next == \E d \in DepsDomain : Render(d)

Spec == Init /\ [][Next]_vars

\* a call deepEqual(a, b) for any two values
InitEq ==
    /\ HookInit
    /\ a \in Values /\ b \in Values
    /\ stack = <<Frame(a, b)>>
    /\ ret = "none"
    /\ LibIdle

NextEq == Call \/ Iterate \/ Resume

SpecEq == InitEq /\ [][NextEq]_vars

\* the interpreter runs the call to its end
FairSpecEq == SpecEq /\ WF_vars(NextEq)

----------------------------------------------------------------------------
(* Properties of the trigger, checked under Spec.                           *)

Rendered == renders' = renders + 1

\* same content, whatever the references and the insertion order of keys
RECURSIVE SameContent(_, _)
SameContent(x, y) ==
    /\ x.kind = y.kind
    /\ x.v = y.v
    /\ {m.name : m \in {x.members[k] : k \in 1..Len(x.members)}}
         = {m.name : m \in {y.members[k] : k \in 1..Len(y.members)}}
    /\ \A k \in 1..Len(x.members) :
           SameContent(x.members[k].val, Get(y, x.members[k].name))

\* C1: a render with dependency value deps sets snapshot = deps and adds
\* exactly 1 to the generation counter if deps is null or undefined or
\* deepEqual(deps, snapshot) is false, and leaves the counter alone otherwise;
\* the first render of an instance always fires.
C1_FiresIffAbsentOrUnequal ==
    [][Rendered =>
          /\ (deps' \in Absent \/ ~deepEqual(deps', ref))
                => (ref' = deps' /\ signalRef' = signalRef + 1)
          /\ ~(deps' \in Absent \/ ~deepEqual(deps', ref))
                => signalRef' = signalRef
          /\ renders = 0 => signalRef' = signalRef + 1]_vars

\* a second render without deps fired over a snapshot set by the first
C1_Witness == renders = 2 /\ deps \in Absent /\ signalRef = 2 /\ ref = deps

\* C2: with only present dependency values, a render after the first fires
\* if and only if its deps differ in content from the deps of the render
\* right before it.
C2_FiresIffContentChanged ==
    [][(Rendered /\ renders >= 1 /\ allPresent /\ deps' \notin Absent)
          => ((signalRef' = signalRef + 1) <=> ~SameContent(deps', deps))]_vars

\* C3: once the trigger has fired, the snapshot is the whole dependency
\* value of the most recent render that fired.
C3_SnapshotIsLastFired == signalRef > 0 => ref = lastFired

\* the last render did not fire and was given another value than the snapshot
C3_Witness == renders = 3 /\ signalRef = 1 /\ ~fired /\ deps # ref /\ ref = lastFired

\* C4: a render whose deps are present and deepEqual to the snapshot leaves
\* the snapshot and the generation counter as they were.
C4_NoFireLeavesState ==
    [][(Rendered /\ deps' \notin Absent /\ deepEqual(deps', ref))
          => (ref' = ref /\ signalRef' = signalRef)]_vars

\* a render that did not fire although its deps are another object than the snapshot
C4_Witness == renders >= 2 /\ ~fired /\ deps \notin Absent /\ deps # ref /\ deepEqual(deps, ref)

----------------------------------------------------------------------------
(* Properties of deepEqual, checked under SpecEq for every pair a, b.       *)

\* the call deepEqual(a, b) has returned
Returned == stack = <<>> /\ ret \in {"true", "false"}

\* x as one object passed for both operands
SameObject(x) == [x EXCEPT !.interned = IsComposite(x)]

\* a copy of x that shares no object with x
RECURSIVE Copy(_)
Copy(x) ==
    [x EXCEPT !.interned = FALSE,
              !.members = [k \in 1..Len(x.members) |->
                              [name |-> x.members[k].name, val |-> Copy(x.members[k].val)]]]

MemberNames(x) == {x.members[k].name : k \in 1..Len(x.members)}

\* the stepwise run returns what the function returns
ResultAgrees == Returned => ((ret = "true") <=> deepEqual(a, b))

\* C5: deepEqual(x, x) is true for every value x, and so is deepEqual(x, x')
\* for a distinct copy x' of x.
C5_Reflexive == deepEqual(SameObject(a), SameObject(a)) /\ deepEqual(a, Copy(a))

\* C6: deepEqual(x, y) = deepEqual(y, x) for all values x and y.
C6_Symmetric == deepEqual(a, b) <=> deepEqual(b, a)

\* two records that list the same keys in different orders compared equal
C6_Witness ==
    /\ Returned /\ ret = "true"
    /\ a.kind = "object" /\ b.kind = "object"
    /\ ObjectKeys(a) # ObjectKeys(b)

\* C7 as stated: with a null or undefined operand, deepEqual is true exactly
\* when both operands are null or undefined.
C7_TrueIffBothAbsent ==
    (a \in Absent \/ b \in Absent) => (deepEqual(a, b) <=> (a \in Absent /\ b \in Absent))

\* C7 amended: with a null or undefined operand, deepEqual is true exactly
\* when both operands are the same absence-value, null with null or undefined
\* with undefined.
C7_TrueIffSameAbsent ==
    (a \in Absent \/ b \in Absent) => (deepEqual(a, b) <=> a.kind = b.kind)

\* null compared with undefined returned false
C7_Witness == Returned /\ ret = "false" /\ a = Null /\ b = Undefined

\* C8: two arrays, or two records, are deepEqual if and only if they have
\* the same member names and deepEqual values under every name.
C8_EqualIffMembersEqual ==
    (IsComposite(a) /\ a.kind = b.kind)
        => (deepEqual(a, b) <=>
               /\ MemberNames(a) = MemberNames(b)
               /\ \A n \in MemberNames(a) : deepEqual(Get(a, n), Get(b, n)))

\* C9: values that deepEqual equates are both null or undefined, or the same
\* primitive, or both arrays, or both records.
C9_EqualImpliesSameKind ==
    deepEqual(a, b) =>
        \/ a \in Absent /\ b \in Absent
        \/ ~IsComposite(a) /\ a.kind = b.kind /\ a.v = b.v
        \/ a.kind = "array" /\ b.kind = "array"
        \/ a.kind = "object" /\ b.kind = "object"

\* an array and a record whose keys are the array's indices compared unequal
C9_Witness ==
    /\ Returned /\ ret = "false"
    /\ a.kind = "array" /\ b.kind = "object"
    /\ a.members # <<>> /\ a.members = b.members

\* C10: every call deepEqual(a, b) comes to an end and returns a boolean;
\* none raises an error.
C10_Terminates == <>Returned

\* a call that went through the loop and a nested call has returned true
C10_Witness ==
    /\ Returned /\ ret = "true"
    /\ a \in Composites(MaxDepth) /\ ~StrictEquals(a, b)

----------------------------------------------------------------------------
(* useCounter, src/unnamed/part_001 lines 59-96.  Numbers are integers; an  *)
(* instance keeps the initialValue and the options it was mounted with.     *)

MaxAbs == 2        \* initialValue, min, max, step and set's argument: -MaxAbs..MaxAbs

Numbers == (0 - MaxAbs)..MaxAbs
\* the counts the model follows
CountRange == (0 - 3 * MaxAbs)..(3 * MaxAbs)

\* Math.min, Math.max
MathMin(x, y) == IF x <= y THEN x ELSE y
MathMax(x, y) == IF x >= y THEN x ELSE y

\* lines 67, 80, 86: Math.min(Math.max(value, min), max)
Clamp(v, lo, hi) == MathMin(MathMax(v, lo), hi)

\* line 71: the updater of increment
IncrementOf(prev, step, hi) == MathMin(prev + step, hi)

\* line 75: the updater of decrement
DecrementOf(prev, step, lo) == MathMax(prev - step, lo)

\* lines 63-68: mount
CounterInit ==
    /\ cInitial \in Numbers
    /\ cMin \in Numbers /\ cMax \in Numbers /\ cMin <= cMax
    /\ cStep \in Numbers
    /\ count = Clamp(cInitial, cMin, cMax)

CounterFrame == UNCHANGED <<cInitial, cMin, cMax, cStep, hookVars, eqVars, arrayVars, prevVars, updVars, unmVars, storVars>>

\* lines 70-72
Increment ==
    /\ IncrementOf(count, cStep, cMax) \in CountRange
    /\ count' = IncrementOf(count, cStep, cMax)
    /\ CounterFrame

\* lines 74-76
Decrement ==
    /\ DecrementOf(count, cStep, cMin) \in CountRange
    /\ count' = DecrementOf(count, cStep, cMin)
    /\ CounterFrame

\* lines 78-83
CounterSet(v) ==
    /\ count' = Clamp(v, cMin, cMax)
    /\ CounterFrame

\* lines 85-87
CounterReset ==
    /\ count' = Clamp(cInitial, cMin, cMax)
    /\ CounterFrame

InitCounter == HookInit /\ EqIdle /\ CounterInit /\ ArrayIdle /\ PrevIdle /\ UpdIdle /\ UnmIdle /\ StorIdle

NextCounter ==
    \/ Increment
    \/ Decrement
    \/ \E v \in Numbers : CounterSet(v)
    \/ CounterReset

SpecCounter == InitCounter /\ [][NextCounter]_vars

\* C11: with min <= max and any step, min <= count <= max right after mount
\* and after any sequence of increment, decrement, set and reset.
C11_CountWithinBounds == cMin <= count /\ count <= cMax

----------------------------------------------------------------------------
(* useArray, src/src/hooks/state-management/useArray.ts lines 68-155.       *)
(* setArray(updater) queues the updater; the host calls it with the state   *)
(* when it renders the component.  Only when nothing is queued may the host *)
(* call the updater at once, inside setArray, to compute the state early.   *)

MaxArr == 2        \* items of the array
MaxPending == 2    \* updates queued between two renders

Items == {"x", "y"}

\* Array.prototype.pop and shift: the item removed, undefined from an empty array
LastOf(xs) == IF xs = <<>> THEN "undefined" ELSE xs[Len(xs)]
FirstOf(xs) == IF xs = <<>> THEN "undefined" ELSE xs[1]

\* the updaters of push (line 76), pop (81-85), unshift (90), shift (95-99)
\* and the value given by clear (122)
ApplyUpdate(u, prev) ==
    CASE u.op = "push" -> Append(prev, u.item)
      [] u.op = "pop" -> SubSeq(prev, 1, Len(prev) - 1)
      [] u.op = "unshift" -> <<u.item>> \o prev
      [] u.op = "shift" -> SubSeq(prev, 2, Len(prev))
      [] u.op = "clear" -> <<>>

\* the state after the host has run the queued updates in order
RECURSIVE Reduce(_, _)
Reduce(queue, prev) ==
    IF queue = <<>> THEN prev ELSE Reduce(Tail(queue), ApplyUpdate(Head(queue), prev))

Update(op, item) == [op |-> op, item |-> item]

\* whether the host may call the updater inside setArray
MayRunEarly(queue) == IF queue = <<>> THEN BOOLEAN ELSE {FALSE}

PopReturn_Eager(early, removed) == removed

\* lines 80 and 86, 94 and 100: poppedItem is assigned by the updater, and
\* is still undefined at the return if the updater has not run yet
PopReturn(early, removed) == IF early THEN removed ELSE "undefined"

ArrayInit ==
    /\ array \in SeqsUpTo(Items, MaxArr)
    /\ pending = <<>>
    /\ aOp = "none" /\ aRet = "undefined" /\ aWant = "undefined"

ArrayFrame == UNCHANGED <<hookVars, eqVars, counterVars, prevVars, updVars, unmVars, storVars>>

Enqueue(u) ==
    /\ Len(pending) < MaxPending
    /\ pending' = Append(pending, u)
    /\ array' = array
    /\ aOp' = u.op

\* lines 75-77
ArrayPush(item) ==
    /\ Len(Reduce(pending, array)) < MaxArr
    /\ Enqueue(Update("push", item))
    /\ aRet' = "undefined" /\ aWant' = "undefined"
    /\ ArrayFrame

\* lines 89-91
ArrayUnshift(item) ==
    /\ Len(Reduce(pending, array)) < MaxArr
    /\ Enqueue(Update("unshift", item))
    /\ aRet' = "undefined" /\ aWant' = "undefined"
    /\ ArrayFrame

\* lines 79-87
ArrayPop ==
    /\ \E early \in MayRunEarly(pending) :
           aRet' = PopReturn(early, LastOf(array))
    /\ aWant' = LastOf(Reduce(pending, array))
    /\ Enqueue(Update("pop", "undefined"))
    /\ ArrayFrame

\* lines 93-101
ArrayShift ==
    /\ \E early \in MayRunEarly(pending) :
           aRet' = PopReturn(early, FirstOf(array))
    /\ aWant' = FirstOf(Reduce(pending, array))
    /\ Enqueue(Update("shift", "undefined"))
    /\ ArrayFrame

\* lines 121-123
ArrayClear ==
    /\ Enqueue(Update("clear", "undefined"))
    /\ aRet' = "undefined" /\ aWant' = "undefined"
    /\ ArrayFrame

\* the host renders the component: line 69 returns the reduced state
ArrayRender ==
    /\ pending # <<>>
    /\ array' = Reduce(pending, array)
    /\ pending' = <<>>
    /\ UNCHANGED <<aOp, aRet, aWant>>
    /\ ArrayFrame

InitArray == HookInit /\ EqIdle /\ CounterIdle /\ ArrayInit /\ PrevIdle /\ UpdIdle /\ UnmIdle /\ StorIdle

NextArray ==
    \/ \E item \in Items : ArrayPush(item)
    \/ \E item \in Items : ArrayUnshift(item)
    \/ ArrayPop
    \/ ArrayShift
    \/ ArrayClear
    \/ ArrayRender

SpecArray == InitArray /\ [][NextArray]_vars

\* C12: every call of pop returns the last item of the array and every call
\* of shift the first (undefined when the array is empty), also a call made
\* after another mutator and before the component has rendered again.
C12_PopShiftReturnRemoved == aOp \in {"pop", "shift"} => aRet = aWant

----------------------------------------------------------------------------
(* usePrevious, src/unnamed/part_004 lines 51-62.  The host runs the        *)
(* effects of a commit before it renders the component again.               *)

MaxCommits == 4    \* renders of one instance of a lifecycle hook

PropValues == {"undefined", "u", "v", "w", "z"}

PrevReturn_Current(cur, value) == value

\* line 61: return ref.current
PrevReturn(cur, value) == cur

PrevFrame == UNCHANGED <<hookVars, eqVars, counterVars, arrayVars, updVars, unmVars, storVars>>

\* lines 51-62: one render; the effect of line 56 is scheduled
PrevRender(v) ==
    /\ ~pPending /\ pRenders < MaxCommits
    /\ pRet' = PrevReturn(pRef, v)
    /\ pBefore' = IF pRenders = 0 THEN "undefined" ELSE pValue
    /\ pValue' = v
    /\ pRenders' = pRenders + 1
    /\ pPending' = TRUE
    /\ pRef' = pRef
    /\ PrevFrame

\* lines 56-58: the effect, run after the commit
PrevEffect ==
    /\ pPending
    /\ pRef' = pValue
    /\ pPending' = FALSE
    /\ UNCHANGED <<pValue, pRet, pBefore, pRenders>>
    /\ PrevFrame

InitPrev == HookInit /\ EqIdle /\ LibIdle

NextPrev == (\E v \in PropValues : PrevRender(v)) \/ PrevEffect

SpecPrev == InitPrev /\ [][NextPrev]_vars

\* C13: the first render returns undefined, and every later render returns
\* the value passed to the render before it.
C13_ReturnsPreviousValue ==
    /\ pRenders = 1 => pRet = "undefined"
    /\ pRenders >= 1 => pRet = pBefore

\* a third render was given the value of the second again and returned it
C13_Witness == pRenders = 3 /\ pValue = "u" /\ pRet = "u" /\ pBefore = "u"

----------------------------------------------------------------------------
(* useUpdateEffect, src/src/hooks/utility/useUnmount.ts lines 62-76.        *)
(* A dependency list is [given, list]; an instance passes either no list or *)
(* a list of the same length at every render.                               *)

DepItems == {"p", "q", "r"}
DepLists == {NoDeps} \cup {[given |-> TRUE, list |-> l] : l \in {<<>>} \cup [1..2 -> DepItems]}

SameShape(d, e) == d.given = e.given /\ Len(d.list) = Len(e.list)

\* useEffect(..., deps): the host runs the effect function after the mount
\* commit, after every commit without a list, and after a commit whose list
\* differs from the last one in some item
HostRunsEffect(mount, prev, next) ==
    \/ mount
    \/ ~next.given \/ ~prev.given
    \/ \E i \in 1..Len(next.list) : i <= Len(prev.list) /\ next.list[i] # prev.list[i]

UpdCallsEffect_Always(first) == TRUE

\* lines 69-74: the effect function calls effect() unless isFirstRender.current
UpdCallsEffect(first) == ~first

UpdFrame == UNCHANGED <<hookVars, eqVars, counterVars, arrayVars, prevVars, unmVars, storVars>>

\* lines 62-76: one render and its commit, effects included
UpdCommit(d) ==
    /\ uCommits < MaxCommits
    /\ uCommits > 0 => SameShape(d, uDeps)
    /\ uCommits' = uCommits + 1
    /\ uPrevDeps' = uDeps
    /\ uDeps' = d
    /\ IF HostRunsEffect(uCommits = 0, uDeps, d)
       THEN /\ uInvoked' = UpdCallsEffect(uFirst)
            /\ uFirst' = FALSE
       ELSE /\ uInvoked' = FALSE
            /\ uFirst' = uFirst
    /\ UpdFrame

InitUpd == HookInit /\ EqIdle /\ LibIdle

NextUpd == \E d \in DepLists : UpdCommit(d)

SpecUpd == InitUpd /\ [][NextUpd]_vars

\* C14: effect() is not called for the mount commit; after a later commit it
\* is called exactly when no dependency list is given or the list differs
\* from that of the commit before.
C14_RunsOnUpdatesOnly ==
    /\ uCommits = 1 => ~uInvoked
    /\ uCommits >= 2 => (uInvoked <=> (~uDeps.given \/ uDeps # uPrevDeps))

\* after a commit with a changed list effect() ran, the mount long past
C14_Witness == uCommits = 3 /\ uInvoked /\ uDeps.given /\ uDeps # uPrevDeps

----------------------------------------------------------------------------
(* useUnmount, src/src/hooks/utility/useUnmount.ts lines 24-35.             *)

Fns == {"f", "g", "h", "k", "l"}

FnRefAfterRender_Keep(cur, fn) == cur

\* line 28: fnRef.current = fn
FnRefAfterRender(cur, fn) == fn

UnmFrame == UNCHANGED <<hookVars, eqVars, counterVars, arrayVars, prevVars, updVars, storVars>>

\* lines 24-35, first render: useRef(fn), line 28, and the effect of line
\* 30, which only returns its cleanup
UnmMount(fn) ==
    /\ mPhase = "new"
    /\ mPhase' = "mounted"
    /\ mFnRef' = FnRefAfterRender(fn, fn)
    /\ mFn' = fn /\ mMountFn' = fn
    /\ mRenders' = 1
    /\ UNCHANGED <<mCalls, mCalled>>
    /\ UnmFrame

\* lines 24-35, a later render: the effect has the dependency list [] and
\* neither it nor its cleanup runs
UnmRender(fn) ==
    /\ mPhase = "mounted" /\ mRenders < MaxCommits
    /\ mFnRef' = FnRefAfterRender(mFnRef, fn)
    /\ mFn' = fn
    /\ mRenders' = mRenders + 1
    /\ UNCHANGED <<mPhase, mMountFn, mCalls, mCalled>>
    /\ UnmFrame

\* lines 31-33: the host runs the cleanup when the component unmounts
Unmount ==
    /\ mPhase = "mounted"
    /\ mPhase' = "unmounted"
    /\ mCalls' = mCalls + 1
    /\ mCalled' = mFnRef
    /\ UNCHANGED <<mFnRef, mFn, mMountFn, mRenders>>
    /\ UnmFrame

InitUnm ==
    HookInit /\ EqIdle /\ CounterIdle /\ ArrayIdle /\ PrevIdle /\ UpdIdle /\ StorIdle
    /\ UnmIdle

NextUnm ==
    \/ \E fn \in Fns : UnmMount(fn)
    \/ \E fn \in Fns : UnmRender(fn)
    \/ Unmount

SpecUnm == InitUnm /\ [][NextUnm]_vars

\* C15: the hook calls nothing while the component is mounted, and at
\* unmount it calls, once, the fn of the latest render.
C15_CallsLatestFnOnceAtUnmount ==
    /\ mPhase = "mounted" => mCalls = 0
    /\ mPhase = "unmounted" => (mCalls = 1 /\ mCalled = mFn)

\* unmounted after a re-render with another fn than the mount's
C15_Witness == mPhase = "unmounted" /\ mRenders >= 2 /\ mFn # mMountFn /\ mCalled = mFn

----------------------------------------------------------------------------
(* useLocalStorage, src/unnamed/part_002 lines 31-52, and useSessionStorage, *)
(* src/unnamed/part_005 lines 31-52: the same code on the two storage        *)
(* objects of the browser.                                                   *)

\* a string value
Str(t) == Prim("string", t)

\* the values a component keeps in the state
StateValues == {Undefined, Null, Zero, NaN, EmptyStr}

\* what the storage holds before the component mounts: no entry (getItem
\* returns null), the empty text, a JSON text and a text that is not JSON
InitialEntries == {Null, Str(""), Str("1"), Str("{")}

\* JSON.stringify(v) of a primitive: undefined has no serialization and the
\* result is undefined; NaN is serialized as null
JSONStringify(v) ==
    CASE v.kind = "undefined" -> Undefined
      [] v.kind = "null" -> Str("null")
      [] v.kind = "number" -> IF v = NaN THEN Str("null") ELSE Str(v.v)
      [] v.kind = "boolean" -> Str(v.v)
      [] v.kind = "string" -> Str("\"" \o v.v \o "\"")

\* the texts JSON.parse accepts, of those that occur
Parses(t) == t \in {"null", "0", "1", "false", "\"\""}

\* JSON.parse(t) of a text it accepts
JSONParse(t) ==
    CASE t = "null" -> Null
      [] t = "0" -> Zero
      [] t = "1" -> One
      [] t = "false" -> False
      [] t = "\"\"" -> EmptyStr

\* setItem(key, x) stores String(x)
StoredText(x) == IF x.kind = "undefined" THEN Str("undefined") ELSE x

\* lines 32-41: the initializer of the state
InitialState(item, initialValue, readThrows) ==
    IF readThrows THEN initialValue
    ELSE IF Falsy(item) THEN initialValue
    ELSE IF Parses(item.v) THEN JSONParse(item.v)
    ELSE initialValue

EffectDepsChanged_ValueOnly(prevKey, prevValue, key, value) == prevValue # value

\* line 49: [key, storedValue] differs from the list of the commit before
EffectDepsChanged(prevKey, prevValue, key, value) ==
    prevKey # key \/ prevValue # value

\* lines 44-48: setItem(key, JSON.stringify(storedValue)); an exception is
\* caught and leaves the storage as it was
Written(kind, key, value, writeThrows) ==
    IF writeThrows THEN storage
    ELSE [storage EXCEPT ![kind][key] = StoredText(JSONStringify(value))]

StorFrame == UNCHANGED <<hookVars, eqVars, counterVars, arrayVars, prevVars, updVars, unmVars>>

\* lines 31-52, first render and its effect
StorageMount(kind, key, initialValue, readThrows, writeThrows) ==
    /\ sPhase = "new"
    /\ sPhase' = "mounted"
    /\ sKind' = kind
    /\ sKey' = key
    /\ sValue' = InitialState(storage[kind][key], initialValue, readThrows)
    /\ sPending' = sValue'
    /\ storage' = Written(kind, key, sValue', writeThrows)
    /\ sWriteOk' = ~writeThrows
    /\ StorFrame

\* line 51: setStoredValue(v), which takes effect at the next render
StorageSet(v) ==
    /\ sPhase = "mounted"
    /\ sPending' = v
    /\ UNCHANGED <<storage, sPhase, sKind, sKey, sValue, sWriteOk>>
    /\ StorFrame

\* lines 31-52, a later render with its effect
StorageRender(key, writeThrows) ==
    /\ sPhase = "mounted"
    /\ sKey' = key
    /\ sValue' = sPending
    /\ IF EffectDepsChanged(sKey, sValue, key, sPending)
       THEN /\ storage' = Written(sKind, key, sPending, writeThrows)
            /\ sWriteOk' = ~writeThrows
       ELSE /\ ~writeThrows
            /\ UNCHANGED <<storage, sWriteOk>>
    /\ UNCHANGED <<sPhase, sKind, sPending>>
    /\ StorFrame

StorInit ==
    /\ storage \in [StorageKinds -> [StoreKeys -> InitialEntries]]
    /\ sPhase = "new" /\ sKind = "none" /\ sKey = "none"
    /\ sValue = Undefined /\ sPending = Undefined /\ sWriteOk = FALSE

InitStor ==
    HookInit /\ EqIdle /\ CounterIdle /\ ArrayIdle /\ PrevIdle /\ UpdIdle /\ UnmIdle
    /\ StorInit

NextStor ==
    \/ \E kind \in StorageKinds, key \in StoreKeys, initialValue \in StateValues,
          readThrows \in BOOLEAN, writeThrows \in BOOLEAN :
            StorageMount(kind, key, initialValue, readThrows, writeThrows)
    \/ \E v \in StateValues : StorageSet(v)
    \/ \E key \in StoreKeys, writeThrows \in BOOLEAN : StorageRender(key, writeThrows)

SpecStor == InitStor /\ [][NextStor]_vars

----------------------------------------------------------------------------
(* The effect of useDeepCompareEffect, checked under Spec.                  *)

\* C17: the host runs the effect after exactly the renders in which the
\* generation counter changed, the mount render being one of them, and the
\* counter never decreases and is the number of renders that fired so far.
C17_EffectRunsIffFired ==
    /\ [](/\ renders >= 1 => (effectRan <=> fired)
          /\ renders = 1 => (effectRan /\ fired)
          /\ signalRef = firings)
    /\ [][signalRef' >= signalRef]_vars

\* after two firings, a render that did not fire and ran no effect
C17_Witness == renders = 3 /\ firings = 2 /\ signalRef = 2 /\ ~fired /\ ~effectRan

====
